---- MODULE Spec2Model ----
(***************************************************************************)
(* Token lifecycle coordinator of schwab_client (auth.py):                 *)
(* SchwabAuthTokenManager.get_token, is_token_expired, _refresh_token and  *)
(* _retry_get_valid_token, run by several concurrent callers against one   *)
(* token store, one lock and one identity provider.                        *)
(*                                                                         *)
(* Every `await` of get_token is a point where other callers may run, so   *)
(* each action below is the code between two consecutive awaits.           *)
(***************************************************************************)
EXTENDS Integers, FiniteSets, Sequences, TLC

\* ---------------------------------------------------------------- bounds
MaxTime   == 2   \* time.time() ranges over 0..MaxTime
MaxCalls  == 2   \* get_token calls started in one behaviour
MaxIssued == 2   \* credential sets the identity provider issues

\* Arguments get_token is called with, and the provider's "expires_in".
Buffers      == {0, 1}
LockAttempts == {0, 2}
ExpiresInOf  == {2}

\* ------------------------------------------------------------ deployment
\* Two concurrent callers.  Caller 1 uses manager 1; caller 2 uses the same
\* manager (one process) or a second one (another process).  Store, lock
\* and provider are shared by all.
Callers  == {1, 2}
Managers == {1, 2}

\* ---------------------------------------------------------------- values
\* read_token's "no record" answer, and a local that is not bound
None == [tag |-> "none"]

\* expires_at: absent key, a value that is no int/float, or a number
ExpAbsent    == [tag |-> "absent", val |-> 0]
ExpMalformed == [tag |-> "str", val |-> 0]
ExpNum(n)    == [tag |-> "num", val |-> n]

\* OAuth2Token: tokens are numbered in the order the provider issued them,
\* 0 being the credential set created out of band.
OAuth2Token(n, e) ==
    [access_token |-> n, refresh_token |-> n, expires_at |-> e]

\* Records the store may hold before the first get_token call.
InitialTokens ==
    {OAuth2Token(0, e) : e \in {ExpAbsent, ExpMalformed, ExpNum(1)}}

\* response.json() of the n-th successful refresh received at time t: the
\* provider's JSON is returned as is; whether it carries an absolute
\* "expires_at" next to "expires_in" is the provider's choice.
Responses(n, t) ==
    {OAuth2Token(n, e) : e \in {ExpAbsent} \cup {ExpNum(t + x) : x \in ExpiresInOf}}

VARIABLES
    now,            \* time.time()
    store,          \* the record behind token_storage (None: no record)
    lock,           \* holder of db_lock (0: free)
    issued,         \* number of credential sets the provider has issued
    calls,          \* get_token calls started so far
    mgr,            \* mgr[c]: the manager instance caller c calls
    self_token,     \* self_token[m]: attribute _token of manager m
    pc,             \* pc[c]: position of caller c inside get_token
    buffer,         \* buffer[c]: argument of the running call
    lock_attempts,  \* lock_attempts[c]: argument of the call
    token_data,     \* token_data[c]: local of get_token / _retry_get_valid_token
    refreshed_token,\* refreshed_token[c]: local of get_token
    request,        \* request[c]: payload of the POST in flight
    acquired,       \* acquired[c]: value bound by `async with self.lock(...)`
    rounds,         \* rounds[c]: iterations of the retry loop started
    outcome,        \* outcome[c]: how the call ended ("" while running)
    ret,            \* ret[c]: value the call returned
    path,           \* path[c]: return statement taken ("fresh","refresh","retry")
    lockTries,      \* lockTries[c]: lock acquisitions attempted by the call
    transportCalls, \* transportCalls[c]: POSTs sent by the call
    storeWrites,    \* storeWrites[c]: write_token calls completed by the call
    storeReads,     \* storeReads[c]: read_token calls made by get_token itself
    storedAtCall,   \* storedAtCall[c]: number of the record stored when the call began
    concurrent,     \* TRUE while no call has started after another one ended
    probe,          \* last direct is_token_expired(buffer) call and its answer
    receipt,        \* receipt[n]: time.time() when the n-th refresh response arrived
    req             \* req[r]: a SchwabClient request: position, method, sends,
                    \* buffers passed to get_token, failures, outcome

shared   == <<now, store, lock, issued>>
deploy   == <<calls, mgr, concurrent>>
args     == <<buffer, lock_attempts, storedAtCall>>
locals   == <<token_data, refreshed_token, request, acquired, rounds>>
result   == <<outcome, ret, path>>
counters == <<lockTries, transportCalls, storeWrites, storeReads>>

others   == <<probe, req, receipt>>

vars == <<shared, deploy, self_token, pc, args, locals, result, counters,
          others>>

\* ------------------------------------------------------ is_token_expired
\* Mutant: a record whose expires_at is no number is trusted.
IsTokenExpired_TrustMalformed(token, buf, t) ==
    IF token = None THEN TRUE
    ELSE IF token.expires_at.tag # "num" THEN FALSE
    ELSE token.expires_at.val = 0 \/ t >= token.expires_at.val - buf

\* Mutant: the comparison with the buffered expiry is strict.
IsTokenExpired_Strict(token, buf, t) ==
    IF token = None THEN TRUE
    ELSE IF token.expires_at.tag # "num" THEN TRUE
    ELSE token.expires_at.val = 0 \/ t > token.expires_at.val - buf

\* Lines 111-119: the decision of is_token_expired on the record it read.
IsTokenExpired(token, buf, t) ==
    IF token = None THEN TRUE
    ELSE IF token.expires_at.tag # "num" THEN TRUE
    ELSE token.expires_at.val = 0 \/ t >= token.expires_at.val - buf

\* Line 109: is_token_expired(buffer) reads the store itself, then decides.
is_token_expired(buf) == IsTokenExpired(store, buf, now)

\* -------------------------------------------------------------- the lock
\* Mutant: leaving the `async with` block does not release the lock.
LockRelease_Never(c) == lock

\* Mutant: the lock reports held to every caller.
LockAcquire_Always(c) == TRUE

\* __aenter__ of the lock context manager: held iff nobody holds it.
LockAcquire(c) == lock = 0

\* __aexit__ of the lock context manager: the holder releases, a caller
\* that does not hold it changes nothing.
LockRelease(c) == IF lock = c THEN 0 ELSE lock

\* No direct is_token_expired call has been made.
NoProbe == [asked |-> FALSE, buffer |-> 0, expired |-> FALSE]

\* The requests a SchwabClient may have in flight.
Requests == {1, 2}

\* No request of a SchwabClient has been made.
NoRequests ==
    [r \in Requests |-> [pc |-> "idle", method |-> "", sends |-> 0,
                        token_buffers |-> <<>>, auth_failures |-> 0,
                        outcome |-> ""]]

\* ------------------------------------------------------------------ Init
Init ==
    /\ now = 0
    /\ store \in {None} \cup InitialTokens
    /\ lock = 0
    /\ issued = 0
    /\ calls = 0
    /\ mgr \in {[c \in Callers |-> 1], [c \in Callers |-> c]}
    /\ self_token = [m \in Managers |-> None]
    /\ pc = [c \in Callers |-> "idle"]
    /\ buffer = [c \in Callers |-> 0]
    /\ lock_attempts = [c \in Callers |-> 0]
    /\ token_data = [c \in Callers |-> None]
    /\ refreshed_token = [c \in Callers |-> None]
    /\ request = [c \in Callers |-> None]
    /\ acquired = [c \in Callers |-> FALSE]
    /\ rounds = [c \in Callers |-> 0]
    /\ outcome = [c \in Callers |-> ""]
    /\ ret = [c \in Callers |-> None]
    /\ path = [c \in Callers |-> ""]
    /\ lockTries = [c \in Callers |-> 0]
    /\ transportCalls = [c \in Callers |-> 0]
    /\ storeWrites = [c \in Callers |-> 0]
    /\ storeReads = [c \in Callers |-> 0]
    /\ storedAtCall = [c \in Callers |-> 0]
    /\ concurrent = TRUE
    /\ probe = NoProbe
    /\ req = NoRequests
    /\ receipt = [n \in 1..MaxIssued |-> 0]

\* --------------------------------------------------------------- helpers
\* The frame of the call of c is left: its locals and its buffer argument
\* are gone (lock_attempts and rounds are kept to tell how the wait ended).
Leave(c) ==
    /\ pc' = [pc EXCEPT ![c] = "done"]
    /\ buffer' = [buffer EXCEPT ![c] = 0]
    /\ storedAtCall' = [storedAtCall EXCEPT ![c] = 0]
    /\ token_data' = [token_data EXCEPT ![c] = None]
    /\ refreshed_token' = [refreshed_token EXCEPT ![c] = None]
    /\ request' = [request EXCEPT ![c] = None]
    /\ acquired' = [acquired EXCEPT ![c] = FALSE]
    /\ UNCHANGED lock_attempts

\* The call of c ends by raising err: nothing is returned.
Raise(c, err) ==
    /\ Leave(c)
    /\ outcome' = [outcome EXCEPT ![c] = err]
    /\ UNCHANGED <<ret, path>>

\* The call of c ends by returning tok through return statement p.
Return(c, tok, p) ==
    /\ Leave(c)
    /\ outcome' = [outcome EXCEPT ![c] = "ok"]
    /\ ret' = [ret EXCEPT ![c] = tok]
    /\ path' = [path EXCEPT ![c] = p]

\* The call of c goes on at position p.
Goto(c, p) ==
    /\ pc' = [pc EXCEPT ![c] = p]
    /\ UNCHANGED result

\* -------------------------------------------------------------- get_token
\* Line 183: a caller starts get_token(buffer = b, lock_attempts = a).
Call(c, b, a) ==
    /\ pc[c] \in {"idle", "done"}
    /\ calls < MaxCalls
    /\ calls' = calls + 1
    /\ concurrent' = (concurrent /\ \A d \in Callers : pc[d] # "done")
    /\ pc' = [pc EXCEPT ![c] = "read"]
    /\ buffer' = [buffer EXCEPT ![c] = b]
    /\ lock_attempts' = [lock_attempts EXCEPT ![c] = a]
    /\ rounds' = [rounds EXCEPT ![c] = 0]
    /\ outcome' = [outcome EXCEPT ![c] = ""]
    /\ ret' = [ret EXCEPT ![c] = None]
    /\ path' = [path EXCEPT ![c] = ""]
    /\ lockTries' = [lockTries EXCEPT ![c] = 0]
    /\ transportCalls' = [transportCalls EXCEPT ![c] = 0]
    /\ storeWrites' = [storeWrites EXCEPT ![c] = 0]
    /\ storeReads' = [storeReads EXCEPT ![c] = 0]
    /\ storedAtCall' = [storedAtCall EXCEPT ![c] =
                            IF store = None THEN 0 ELSE store.refresh_token]
    /\ UNCHANGED <<shared, mgr, others, self_token, token_data, refreshed_token,
                   request, acquired>>

\* Mutant: the manager's cached _token is trusted when it is set.
read_token_Cached(c) ==
    IF self_token[mgr[c]] # None THEN self_token[mgr[c]] ELSE store

\* Lines 171 and 193: token_storage.read_token answers with the record the
\* store holds now.
read_token(c) == store

\* Mutant: the "no record" test never fires.
NoToken_Never(tok) == FALSE

\* Lines 173 and 195: `if not token_data`.
NoToken(tok) == tok = None

\* Lines 193-196: token_data = await read_token(); no record raises ValueError.
ReadToken(c) ==
    /\ pc[c] = "read"
    /\ storeReads' = [storeReads EXCEPT ![c] = @ + 1]
    /\ IF NoToken(read_token(c))
       THEN Raise(c, "ValueError")
       ELSE /\ token_data' = [token_data EXCEPT ![c] = read_token(c)]
            /\ Goto(c, "check")
            /\ UNCHANGED <<args, refreshed_token, request, acquired>>
    /\ UNCHANGED <<shared, deploy, others, self_token, rounds, lockTries,
                   transportCalls, storeWrites>>

\* Lines 198-201: is_token_expired(buffer) reads the store again; when it
\* answers "not expired" the token_data read at line 193 is returned.
FreshCheck(c) ==
    /\ pc[c] = "check"
    /\ IF ~is_token_expired(buffer[c])
       THEN /\ self_token' = [self_token EXCEPT ![mgr[c]] = token_data[c]]
            /\ Return(c, token_data[c], "fresh")
       ELSE /\ Goto(c, "contend")
            /\ UNCHANGED <<self_token, args, token_data, refreshed_token,
                           request, acquired>>
    /\ UNCHANGED <<shared, deploy, others, rounds, counters>>

\* Mutant: the refresh branch is taken whatever the lock answered.
EntersRefresh_Always(held) == TRUE

\* Line 205: `if acquired:`.
EntersRefresh(held) == held

\* Lines 206-208: the refresh_token handed to _refresh_token is the one of
\* the token_data read at line 193.
RefreshTokenSent(c) == token_data[c].refresh_token

\* Lines 204-208 and 215-216 with 169: `async with self.lock(...) as acquired`.
\* Held: _refresh_token is entered with the refresh_token of token_data and
\* its POST is sent.  Not held: _retry_get_valid_token(lock_attempts) starts;
\* with no attempts its loop is empty and it raises at once.
Acquire(c) ==
    /\ pc[c] = "contend"
    /\ lockTries' = [lockTries EXCEPT ![c] = @ + 1]
    /\ LET held == LockAcquire(c) IN
       /\ lock' = IF held THEN c ELSE lock
       /\ IF EntersRefresh(held)
          THEN /\ acquired' = [acquired EXCEPT ![c] = held]
               /\ request' = [request EXCEPT ![c] =
                                [refresh_token |-> RefreshTokenSent(c)]]
               /\ transportCalls' = [transportCalls EXCEPT ![c] = @ + 1]
               /\ Goto(c, "transport")
               /\ UNCHANGED <<args, token_data, refreshed_token>>
          ELSE /\ IF lock_attempts[c] > 0
                  THEN /\ Goto(c, "retry")
                       /\ UNCHANGED <<args, token_data, refreshed_token,
                                      request, acquired>>
                  ELSE Raise(c, "RuntimeError")
               /\ UNCHANGED transportCalls
    /\ UNCHANGED <<now, store, issued, deploy, others, self_token, rounds,
                   storeWrites, storeReads>>

\* Lines 149-153 and 209: the provider answers 2xx; response.json() becomes
\* refreshed_token and self._token is set to token_data.
TransportOk(c, resp) ==
    /\ pc[c] = "transport"
    /\ issued < MaxIssued
    /\ issued' = issued + 1
    /\ refreshed_token' = [refreshed_token EXCEPT ![c] = resp]
    /\ self_token' = [self_token EXCEPT ![mgr[c]] = token_data[c]]
    /\ receipt' = [receipt EXCEPT ![issued + 1] = now]
    /\ Goto(c, "write")
    /\ UNCHANGED <<now, store, lock, deploy, probe, req, args, token_data,
                   request, acquired, rounds, counters>>

\* Mutant: the failure is swallowed and the record read at line 193 is
\* returned in its place.
TransportFail_Swallow(c) ==
    /\ pc[c] = "transport"
    /\ lock' = IF lock = c THEN 0 ELSE lock
    /\ Return(c, token_data[c], "refresh")
    /\ UNCHANGED <<now, store, issued, deploy, others, self_token, rounds, counters>>

\* Lines 149-152: the POST fails or raise_for_status raises; the exception
\* leaves the `async with`, whose __aexit__ releases the lock.
TransportFail(c) ==
    /\ pc[c] = "transport"
    /\ lock' = LockRelease(c)
    /\ Raise(c, "HTTPStatusError")
    /\ UNCHANGED <<now, store, issued, deploy, others, self_token, rounds, counters>>

\* Mutant: the record read at line 193 is written back.
WrittenToken_Stale(c) == token_data[c]

\* Mutant: the stored record is updated in place, only its access_token
\* taken from the response.
WrittenToken_InPlace(c) ==
    [store EXCEPT !.access_token = refreshed_token[c].access_token]

\* Lines 210-212: the record handed to write_token.
WrittenToken(c) == refreshed_token[c]

\* Lines 210-212: write_token(refreshed_token) replaces the record.
WriteOk(c) ==
    /\ pc[c] = "write"
    /\ store' = WrittenToken(c)
    /\ storeWrites' = [storeWrites EXCEPT ![c] = @ + 1]
    /\ Goto(c, "exit")
    /\ UNCHANGED <<now, lock, issued, deploy, others, self_token, args, locals,
                   lockTries, transportCalls, storeReads>>

\* Lines 210-212: write_token raises without effect; the exception leaves
\* the `async with`, whose __aexit__ releases the lock.
WriteFail(c) ==
    /\ pc[c] = "write"
    /\ lock' = LockRelease(c)
    /\ Raise(c, "StoreWriteError")
    /\ UNCHANGED <<now, store, issued, deploy, others, self_token, rounds, counters>>

\* Line 213: return refreshed_token; __aexit__ releases the lock.
Exit(c) ==
    /\ pc[c] = "exit"
    /\ lock' = LockRelease(c)
    /\ Return(c, refreshed_token[c], "refresh")
    /\ UNCHANGED <<now, store, issued, deploy, others, self_token, rounds, counters>>

\* ------------------------------------------------ _retry_get_valid_token
\* Mutant: a round that returned nothing is fatal.
LoopNext_Fatal(c, n, td) == Raise(c, "RuntimeError")

\* Mutant: the loop gives up one round early.
LoopNext_OneShort(c, n, td) ==
    IF n + 1 < lock_attempts[c]
    THEN /\ Goto(c, "retry")
         /\ token_data' = [token_data EXCEPT ![c] = td]
         /\ UNCHANGED <<args, refreshed_token, request, acquired>>
    ELSE Raise(c, "RuntimeError")

\* Mutant: once the rounds are used up the freshness check is repeated
\* without end.
LoopNext_Spin(c, n, td) ==
    IF n < lock_attempts[c]
    THEN /\ Goto(c, "retry")
         /\ token_data' = [token_data EXCEPT ![c] = td]
         /\ UNCHANGED <<args, refreshed_token, request, acquired>>
    ELSE /\ Goto(c, "retry_check")
         /\ token_data' = [token_data EXCEPT ![c] = td]
         /\ UNCHANGED <<args, refreshed_token, request, acquired>>

\* Lines 169 and 180: after round n returned nothing (token_data bound to
\* td), the next round, or RuntimeError once `attempts` rounds are done;
\* __aexit__ of a lock that is not held changes nothing.
LoopNext(c, n, td) ==
    IF n < lock_attempts[c]
    THEN /\ Goto(c, "retry")
         /\ token_data' = [token_data EXCEPT ![c] = td]
         /\ UNCHANGED <<args, refreshed_token, request, acquired>>
    ELSE Raise(c, "RuntimeError")

\* Lines 170-174: sleep, then read the store; no record: continue.
RetryRead(c) ==
    /\ pc[c] = "retry"
    /\ rounds' = [rounds EXCEPT ![c] = @ + 1]
    /\ IF NoToken(read_token(c))
       THEN LoopNext(c, rounds[c] + 1, read_token(c))
       ELSE /\ token_data' = [token_data EXCEPT ![c] = read_token(c)]
            /\ Goto(c, "retry_check")
            /\ UNCHANGED <<args, refreshed_token, request, acquired>>
    /\ UNCHANGED <<shared, deploy, others, self_token, counters>>

\* Lines 176-178: is_token_expired() (buffer 0) reads the store again; when
\* it answers "not expired" the token_data of line 171 is returned.
RetryCheck(c) ==
    /\ pc[c] = "retry_check"
    /\ IF ~is_token_expired(0)
       THEN /\ self_token' = [self_token EXCEPT ![mgr[c]] = token_data[c]]
            /\ Return(c, token_data[c], "retry")
       ELSE /\ LoopNext(c, rounds[c], token_data[c])
            /\ UNCHANGED self_token
    /\ UNCHANGED <<shared, deploy, others, rounds, counters>>

\* ------------------------------------------------------------ environment
\* time.time() advances.
Tick ==
    /\ now < MaxTime
    /\ now' = now + 1
    /\ UNCHANGED <<store, lock, issued, deploy, others, self_token, pc, args, locals,
                   result, counters>>

Next ==
    \/ \E c \in Callers, b \in Buffers, a \in LockAttempts : Call(c, b, a)
    \/ \E c \in Callers : ReadToken(c)
    \/ \E c \in Callers : FreshCheck(c)
    \/ \E c \in Callers : Acquire(c)
    \/ \E c \in Callers, resp \in Responses(issued + 1, now) : TransportOk(c, resp)
    \/ \E c \in Callers : TransportFail(c)
    \/ \E c \in Callers : WriteOk(c)
    \/ \E c \in Callers : WriteFail(c)
    \/ \E c \in Callers : Exit(c)
    \/ \E c \in Callers : RetryRead(c)
    \/ \E c \in Callers : RetryCheck(c)
    \/ Tick

Spec == Init /\ [][Next]_vars

\* ------------------------------------------------------------- progress
\* One step of the get_token call of c: every awaited operation of the call
\* (store read, lock acquire, POST, store write, sleep) comes back.
Step(c) ==
    \/ ReadToken(c)
    \/ FreshCheck(c)
    \/ Acquire(c)
    \/ \E resp \in Responses(issued + 1, now) : TransportOk(c, resp)
    \/ TransportFail(c)
    \/ WriteOk(c)
    \/ WriteFail(c)
    \/ Exit(c)
    \/ RetryRead(c)
    \/ RetryCheck(c)

\* The event loop runs the call of caller 1 whenever it can go on; nothing
\* is assumed of the other caller, which may stop for ever at any await,
\* the lock in hand.  Every step of a call moves its position or starts a new round.
progress == <<pc, rounds>>

SpecLive == Spec /\ WF_progress(Step(1))

\* ------------------------------------------- is_token_expired on its own
\* Bounds of the direct calls: expires_at ranges over 0..MaxExpiresAt and
\* the buffer over -MaxProbeBuffer..MaxProbeBuffer.
MaxExpiresAt   == 4
MaxProbeBuffer == 3

\* Records the store may hold when is_token_expired is called directly.
ProbeTokens ==
    {OAuth2Token(0, e) :
        e \in {ExpAbsent, ExpMalformed} \cup {ExpNum(n) : n \in 0..MaxExpiresAt}}

\* Any store content, any time; no get_token call is running.
InitExpiry ==
    /\ now \in 0..MaxTime
    /\ store \in {None} \cup ProbeTokens
    /\ lock = 0
    /\ issued = 0
    /\ calls = 0
    /\ mgr = [c \in Callers |-> 1]
    /\ self_token = [m \in Managers |-> None]
    /\ pc = [c \in Callers |-> "idle"]
    /\ buffer = [c \in Callers |-> 0]
    /\ lock_attempts = [c \in Callers |-> 0]
    /\ token_data = [c \in Callers |-> None]
    /\ refreshed_token = [c \in Callers |-> None]
    /\ request = [c \in Callers |-> None]
    /\ acquired = [c \in Callers |-> FALSE]
    /\ rounds = [c \in Callers |-> 0]
    /\ outcome = [c \in Callers |-> ""]
    /\ ret = [c \in Callers |-> None]
    /\ path = [c \in Callers |-> ""]
    /\ lockTries = [c \in Callers |-> 0]
    /\ transportCalls = [c \in Callers |-> 0]
    /\ storeWrites = [c \in Callers |-> 0]
    /\ storeReads = [c \in Callers |-> 0]
    /\ storedAtCall = [c \in Callers |-> 0]
    /\ concurrent = TRUE
    /\ probe = NoProbe
    /\ req = NoRequests
    /\ receipt = [n \in 1..MaxIssued |-> 0]

\* Lines 99-119: await is_token_expired(b), called on its own.
IsTokenExpiredCall(b) ==
    /\ probe' = [asked |-> TRUE, buffer |-> b, expired |-> is_token_expired(b)]
    /\ UNCHANGED <<shared, deploy, self_token, pc, args, locals, result,
                   counters, req, receipt>>

NextExpiry ==
    \E b \in (0 - MaxProbeBuffer)..MaxProbeBuffer : IsTokenExpiredCall(b)

SpecExpiry == InitExpiry /\ [][NextExpiry]_vars

\* ------------------------------------------------ SchwabClient (client.py)
\* The four request methods of a SchwabClient.
Methods  == {"_get", "_post", "_put", "_delete"}

\* get_token(buffer = 60, ...): the buffer of a call that passes none.
DefaultBuffer == 60

\* What awaiting self.auth.get_token() may do to a request: return a token
\* or raise one of the errors of get_token.
GetTokenErrors == {"ValueError", "HTTPStatusError", "RuntimeError"}

\* What awaiting session.<method>(url, params) followed by
\* resp.raise_for_status() may do: a 2xx response, an error status, or the
\* session raising InvalidTokenError / TokenExpiredError.
SendResults == {"2xx", "HTTPStatusError", "InvalidTokenError",
                "TokenExpiredError"}

\* Lines 39-46, 57-64, 76-83, 95-102: a method is entered and tests the
\* attribute self.auth.is_token_expired (a property value or a bound
\* method, so either truth value), which decides whether get_token() is
\* awaited before the request is sent.
ClientRequest(r, m) ==
    /\ req[r].pc = "idle"
    /\ \E expired \in BOOLEAN :
         req' = [req EXCEPT ![r].method = m,
                            ![r].pc = IF expired THEN "get_token" ELSE "send"]
    /\ UNCHANGED <<shared, deploy, self_token, pc, args, locals, result,
                   counters, probe, receipt>>

\* Lines 45-46: await self.auth.get_token(), with no argument; an error it
\* raises leaves the method.
ClientGetToken(r) ==
    /\ req[r].pc = "get_token"
    /\ \/ req' = [req EXCEPT ![r].pc = "send",
                             ![r].token_buffers = Append(@, DefaultBuffer)]
       \/ \E e \in GetTokenErrors :
            req' = [req EXCEPT ![r].pc = "done", ![r].outcome = e,
                               ![r].token_buffers = Append(@, DefaultBuffer)]
    /\ UNCHANGED <<shared, deploy, self_token, pc, args, locals, result,
                   counters, probe, receipt>>

\* The handler of InvalidTokenError / TokenExpiredError, lines 53-55: the
\* method goes on to await get_token().
ClientAuthFailure(r) ==
    [req EXCEPT ![r].pc = "reauth", ![r].sends = @ + 1,
                ![r].auth_failures = @ + 1]

\* Lines 48-53: the request is sent. A 2xx response is returned to the
\* caller (resp.json()), an error status leaves through raise_for_status,
\* and an authorization failure raised by the session enters the handler
\* with resp still unbound.
ClientSend(r) ==
    /\ req[r].pc = "send"
    /\ \E res \in SendResults :
         CASE res = "2xx" ->
                req' = [req EXCEPT ![r].pc = "done", ![r].outcome = "ok",
                                   ![r].sends = @ + 1]
           [] res = "HTTPStatusError" ->
                req' = [req EXCEPT ![r].pc = "done",
                                   ![r].outcome = "HTTPStatusError",
                                   ![r].sends = @ + 1]
           [] OTHER -> req' = ClientAuthFailure(r)
    /\ UNCHANGED <<shared, deploy, self_token, pc, args, locals, result,
                   counters, probe, receipt>>

\* Lines 53-55: await self.auth.get_token() in the handler, again with no
\* argument, then `return resp.json()`: nothing is sent again, and resp
\* was never bound, so the method ends with UnboundLocalError.
ClientReauth(r) ==
    /\ req[r].pc = "reauth"
    /\ \/ req' = [req EXCEPT ![r].pc = "done",
                             ![r].outcome = "UnboundLocalError",
                             ![r].token_buffers = Append(@, DefaultBuffer)]
       \/ \E e \in GetTokenErrors :
            req' = [req EXCEPT ![r].pc = "done", ![r].outcome = e,
                               ![r].token_buffers = Append(@, DefaultBuffer)]
    /\ UNCHANGED <<shared, deploy, self_token, pc, args, locals, result,
                   counters, probe, receipt>>

NextClient ==
    \/ \E r \in Requests, m \in Methods : ClientRequest(r, m)
    \/ \E r \in Requests : ClientGetToken(r)
    \/ \E r \in Requests : ClientSend(r)
    \/ \E r \in Requests : ClientReauth(r)

SpecClient == Init /\ [][NextClient]_vars

\* ================================================================ claims
\* Sum of f over the callers in S.
RECURSIVE SumOver(_, _)
SumOver(f, S) ==
    IF S = {} THEN 0
    ELSE LET c == CHOOSE x \in S : TRUE IN f[c] + SumOver(f, S \ {c})

InCritical(c) == pc[c] \in {"transport", "write", "exit"}
Waiting(c)    == pc[c] \in {"retry", "retry_check"}

\* C1: when every caller ran get_token concurrently (no call started after
\* another had ended), every one of them found the record expired and
\* contended for the lock, and every one returned a credential set, then
\* the Refresh Transport was invoked exactly once in total and all returned
\* credential sets carry the same access_token.
C1_SingleRefreshUnderContention ==
    ( /\ concurrent
      /\ \A c \in Callers :
            pc[c] = "done" /\ outcome[c] = "ok" /\ lockTries[c] >= 1 )
    => /\ SumOver(transportCalls, Callers) = 1
       /\ \A c, d \in Callers : ret[c].access_token = ret[d].access_token

\* C2: a caller that is inside the Refresh Transport sent the refresh_token
\* of the record the store holds now, never the superseded one it read at
\* FRESH-CHECK before another holder replaced the record.
C2_NeverSpendsSupersededRefreshToken ==
    \A c \in Callers :
        pc[c] = "transport" => request[c].refresh_token = store.refresh_token

\* C3: at most one get_token call is inside a Refresh Transport invocation,
\* and a call inside it is one whose lock acquire reported held and that
\* holds the lock.
C3_OneRefreshInFlight ==
    /\ Cardinality({c \in Callers : pc[c] = "transport"}) <= 1
    /\ \A c \in Callers : pc[c] = "transport" => acquired[c] /\ lock = c

\* C3 witness: one caller is inside the transport while the other, which
\* also found the record expired, was refused the lock and waits.
C3_Witness ==
    \E c, d \in Callers :
        /\ c # d
        /\ pc[c] = "transport" /\ lock = c
        /\ Waiting(d) /\ lockTries[d] = 1

\* C4: when get_token returns from REFRESH (record found expired, lock
\* acquired, transport and write succeeded), the store holds exactly the
\* credential set the transport produced, with a new access_token and a new
\* refresh_token, and get_token returns that same credential set.
C4_RefreshPersistsAndReturns ==
    [][ \A c \in Callers :
          (pc[c] = "exit" /\ pc'[c] = "done")
          => /\ outcome'[c] = "ok"
             /\ store' = refreshed_token[c]
             /\ ret'[c] = refreshed_token[c]
             /\ ret'[c].access_token # token_data[c].access_token
             /\ ret'[c].refresh_token # token_data[c].refresh_token ]_vars

\* C4 witness: a call has returned from REFRESH and the store holds what it
\* returned.
C4_Witness ==
    \E c \in Callers :
        /\ pc[c] = "done" /\ outcome[c] = "ok" /\ path[c] = "refresh"
        /\ storeWrites[c] = 1 /\ transportCalls[c] = 1
        /\ store = ret[c]

\* C5: a credential set returned from FRESH-CHECK or from WAIT-RETRY is the
\* very record whose freshness was evaluated (the record the store holds at
\* the evaluation) and is not expired at that evaluation, for the buffer the
\* evaluation used.
C5_ReturnsTheRecordItChecked ==
    [][ \A c \in Callers :
          (pc[c] \in {"check", "retry_check"} /\ outcome'[c] = "ok")
          => /\ ret'[c] = store
             /\ ~IsTokenExpired(ret'[c],
                                IF pc[c] = "check" THEN buffer[c] ELSE 0,
                                now) ]_vars

C7_EmptyStoreIsTerminal ==
    [][ \A c \in Callers :
          (pc[c] = "read" /\ store = None /\ pc'[c] # "read")
          => /\ pc'[c] = "done" /\ outcome'[c] = "ValueError"
             /\ storeReads'[c] = 1
             /\ lockTries'[c] = 0 /\ transportCalls'[c] = 0
             /\ storeWrites'[c] = 0 /\ rounds'[c] = 0
             /\ ret'[c] = None
             /\ store' = store /\ lock' = lock ]_vars

\* C7 witness: a call has ended with ValueError on an empty store.
C7_Witness ==
    \E c \in Callers :
        pc[c] = "done" /\ outcome[c] = "ValueError" /\ store = None

\* C8: when the Refresh Transport fails (the caller leaves the transport
\* with no credential set issued), the call ends with HTTPStatusError (the
\* code's RefreshFailedError), returns nothing, has invoked the transport
\* exactly once and written nothing, and the store is unchanged.
C8_RefreshFailureSurfaces ==
    [][ \A c \in Callers :
          (pc[c] = "transport" /\ pc'[c] # "transport" /\ issued' = issued)
          => /\ pc'[c] = "done" /\ outcome'[c] = "HTTPStatusError"
             /\ ret'[c] = None
             /\ transportCalls'[c] = 1 /\ storeWrites'[c] = 0
             /\ store' = store ]_vars

\* C8 witness: a call that held the lock has ended with HTTPStatusError.
C8_Witness ==
    \E c \in Callers :
        /\ pc[c] = "done" /\ outcome[c] = "HTTPStatusError"
        /\ transportCalls[c] = 1 /\ lockTries[c] = 1
        /\ store # None

\* C9: the lock is held only by a call that is inside its critical section:
\* a call that has ended (by return, transport failure or store write
\* failure) or has not started does not hold it.
C9_LockReleasedOnEveryExit ==
    \A c \in Callers : lock = c => InCritical(c)

\* C9 witness: a call that acquired the lock has ended with a transport or
\* store write failure, and the other caller holds the lock afterwards.
C9_Witness ==
    \E c, d \in Callers :
        /\ c # d
        /\ pc[c] = "done"
        /\ outcome[c] \in {"HTTPStatusError", "StoreWriteError"}
        /\ lock = d /\ InCritical(d)

\* C10: every change of the store, and every completed write_token, is made
\* by a call that holds the lock and is in its REFRESH step.
C10_WritesOnlyUnderLock ==
    [][ (store' # store \/ \E d \in Callers : storeWrites'[d] > storeWrites[d])
        => \E c \in Callers :
              /\ lock = c /\ acquired[c] /\ pc[c] = "write"
              /\ storeWrites'[c] = storeWrites[c] + 1
              /\ \A d \in Callers \ {c} : storeWrites'[d] = storeWrites[d] ]_vars

\* C10 witness: a lock holder has written the store while the other caller
\* is on the WAIT-RETRY path.
C10_Witness ==
    \E c, d \in Callers :
        /\ c # d
        /\ pc[c] = "exit" /\ storeWrites[c] = 1 /\ lock = c
        /\ Waiting(d)

\* C11: after any sequence of get_token calls, a refresh that has written
\* the store left in it the refresh_token the provider issued last, and no
\* Refresh Transport call is in flight with a refresh_token older than the
\* stored one, i.e. one that a persisted refresh has superseded (tokens are
\* numbered in order of issue, the initial one being 0).
C11_RefreshTokenIsMostRecent ==
    \A c \in Callers :
        /\ pc[c] = "exit" => store.refresh_token = issued
        /\ pc[c] = "transport" => request[c].refresh_token >= store.refresh_token

\* C12: the record a successful refresh receives carries a numeric
\* expires_at equal to the time of receipt plus the provider's expires_in,
\* and the record REFRESH writes to the store has a numeric expires_at.
C12_RefreshedRecordHasAbsoluteExpiry ==
    [][ \A c \in Callers :
          /\ (pc[c] = "transport" /\ pc'[c] = "write")
             => refreshed_token'[c].expires_at
                    \in {ExpNum(now + x) : x \in ExpiresInOf}
          /\ (pc[c] = "write" /\ pc'[c] = "exit")
             => store'.expires_at.tag = "num" ]_vars

\* C13: when the freshness evaluation of FRESH-CHECK finds the stored record
\* present and not expired for the caller's buffer, get_token returns that
\* record as a terminal success with no lock acquisition attempt, no
\* transport call, no store write, and store and lock left as they were.
C13_FreshRecordReturnedUntouched ==
    [][ \A c \in Callers :
          (/\ pc[c] = "check" /\ pc'[c] # "check"
           /\ store # None /\ ~IsTokenExpired(store, buffer[c], now))
          => /\ pc'[c] = "done" /\ outcome'[c] = "ok" /\ path'[c] = "fresh"
             /\ ret'[c] = store
             /\ lockTries'[c] = 0 /\ transportCalls'[c] = 0
             /\ storeWrites'[c] = 0
             /\ store' = store /\ lock' = lock /\ issued' = issued ]_vars

\* C18: a get_token call that read a stored record whose expires_at is
\* missing or malformed leaves FRESH-CHECK for CONTEND (it neither returns
\* that record nor raises), and when it acquires the lock the refresh it
\* sends carries that record's refresh_token.
C18_MalformedExpiryGoesToRefresh ==
    [][ \A c \in Callers :
          /\ (/\ pc[c] = "check" /\ pc'[c] # "check"
              /\ token_data[c].expires_at.tag # "num")
             => pc'[c] = "contend" /\ outcome'[c] = ""
          /\ (/\ pc[c] = "contend" /\ pc'[c] = "transport"
              /\ token_data[c].expires_at.tag # "num")
             => request'[c].refresh_token = token_data[c].refresh_token ]_vars

C20_WaitRetryHonoursCallerBuffer ==
    [][ \A c \in Callers :
          (pc[c] = "retry_check" /\ outcome'[c] = "ok")
          => ~IsTokenExpired(store, buffer[c], now) ]_vars

\* C14: a get_token call that began when the store held record number n
\* (records are numbered in the order the provider issued them, and the
\* store only ever moves to a later one) never returns a credential set
\* older than n and never sends the refresh_token of one older than n.
C14_CallsObservePersistedRefresh ==
    [][ \A c \in Callers :
          /\ (outcome[c] = "" /\ outcome'[c] = "ok")
             => /\ ret'[c].access_token >= storedAtCall[c]
                /\ ret'[c].refresh_token >= storedAtCall[c]
          /\ (pc[c] = "contend" /\ pc'[c] = "transport")
             => request'[c].refresh_token >= storedAtCall[c]
          /\ (store # None /\ store' # None)
             => store'.refresh_token >= store.refresh_token ]_vars

\* C14 witness: a call that began after a refresh had been persisted found
\* the refreshed record expired, acquired the lock and is spending the
\* refresh_token of that record.
C14_Witness ==
    \E c \in Callers :
        /\ storedAtCall[c] >= 1
        /\ pc[c] = "transport"
        /\ request[c].refresh_token = store.refresh_token
        /\ request[c].refresh_token >= 1

\* The stored record has a numeric expires_at.
NumericExpiry == store # None /\ store.expires_at.tag = "num"

\* The stored record is missing, or its expires_at is missing, not a
\* number, or lies in the past.
UnprovenFresh ==
    \/ store = None
    \/ store.expires_at.tag # "num"
    \/ store.expires_at.val < now

\* C15 as claimed: with no record, or a record whose expires_at is missing,
\* not numeric or in the past, is_token_expired answers true for every
\* buffer, negative buffers included.
C15_FailSafeForEveryBuffer ==
    (probe.asked /\ UnprovenFresh) => probe.expired

\* C15 as amended: with no record, or a record whose expires_at is missing
\* or not numeric, is_token_expired answers true for every buffer; with an
\* expires_at in the past it answers true for every buffer >= 0.
C15_FailSafeExpiry ==
    (/\ probe.asked
     /\ UnprovenFresh
     /\ (NumericExpiry => probe.buffer >= 0))
    => probe.expired

\* C15 witness: a record whose expires_at lies in the past, other than 0,
\* was evaluated with buffer 0 and found expired.
C15_Witness ==
    /\ probe.asked /\ probe.buffer = 0 /\ probe.expired
    /\ NumericExpiry
    /\ store.expires_at.val < now /\ store.expires_at.val # 0

\* C16 as claimed: for a record with a numeric expires_at, is_token_expired
\* answers true exactly when now >= expires_at - buffer.
C16_BufferSemanticsEverywhere ==
    (probe.asked /\ NumericExpiry)
    => (probe.expired <=> now >= store.expires_at.val - probe.buffer)

\* C16 as amended: for a record with a numeric expires_at, is_token_expired
\* answers true exactly when expires_at is 0 or now >= expires_at - buffer.
C16_BufferSemantics ==
    (probe.asked /\ NumericExpiry)
    => (probe.expired <=>
           (store.expires_at.val = 0
            \/ now >= store.expires_at.val - probe.buffer))

\* C16 witness: the boundary now = expires_at - buffer, for a positive
\* buffer, answered "expired".
C16_Witness ==
    /\ probe.asked /\ NumericExpiry /\ probe.expired
    /\ probe.buffer > 0
    /\ store.expires_at.val # 0
    /\ now = store.expires_at.val - probe.buffer

\* C17: when a business call of the client fails with an authorization
\* failure, the client calls get_token again with a zero buffer and then
\* re-sends the business call exactly once, returning the result of that
\* second attempt: a finished request that met an authorization failure
\* has sent the call twice and has passed buffer 0 to its last get_token.
C17_RetriesBusinessCallOnce ==
    \A r \in Requests :
        (req[r].pc = "done" /\ req[r].auth_failures >= 1)
        => /\ req[r].sends = 2
           /\ req[r].token_buffers # <<>>
           /\ req[r].token_buffers[Len(req[r].token_buffers)] = 0

\* The ways a get_token call ends: the token, ValueError (no record),
\* HTTPStatusError (refresh failed), RuntimeError (wait exhausted).
TerminalOutcomes == {"ok", "ValueError", "HTTPStatusError", "RuntimeError"}

\* C21: every get_token call eventually ends, with exactly one outcome
\* among a returned credential set, ValueError, HTTPStatusError and
\* RuntimeError, whenever its awaited operations come back, even if the
\* other caller keeps the lock for ever; a write_token that raises instead
\* of returning ends the call with that error.
C21_GetTokenTerminates ==
    (pc[1] = "read")
    ~> (/\ pc[1] = "done"
        /\ outcome[1] \in TerminalOutcomes \cup {"StoreWriteError"})

\* Caller 1 gave up after its rounds while caller 2 still holds the lock
\* with its refresh in flight.
C21_Witness ==
    /\ pc[1] = "done" /\ outcome[1] = "RuntimeError"
    /\ lock_attempts[1] > 0 /\ rounds[1] = lock_attempts[1]
    /\ lock = 2 /\ pc[2] = "transport"

\* C22: once a refresh has been persisted and its call has returned, a
\* get_token call begun afterwards with a buffer below expires_in, whose
\* freshness check runs before expires_in - buffer has elapsed since the
\* response arrived, returns the stored record at FRESH-CHECK and sends no
\* refresh: two back-to-back calls cause at most one refresh.
C22_BackToBackCallsRefreshOnce ==
    [][ \A c \in Callers :
          (/\ pc[c] = "check"
           /\ pc'[c] # "check"
           /\ store.refresh_token >= 1
           /\ storedAtCall[c] = store.refresh_token
           /\ \A d \in Callers : pc[d] # "exit"
           /\ \E x \in ExpiresInOf :
                 /\ x > buffer[c]
                 /\ now - receipt[store.refresh_token] < x - buffer[c])
          => /\ pc'[c] = "done"
             /\ path'[c] = "fresh"
             /\ ret'[c] = store
             /\ transportCalls'[c] = 0 ]_vars

\* The call of c leaves the lock-held block of get_token (lines 205-213).
LeavesRefresh(c) ==
    pc[c] \in {"transport", "write", "exit"} /\ pc'[c] = "done"

\* The write_token call of c completes in this step.
WriteCompletes(c) == storeWrites'[c] = storeWrites[c] + 1

\* Refresh Transport calls of the running call of c that returned
\* successfully: refreshed_token is bound by the return of line 153.
SuccessfulTransports(c) == IF refreshed_token[c] # None THEN 1 ELSE 0

SameProcess(c, d) == c # d /\ mgr[c] = mgr[d]

\* C24: among get_token calls running in one process, at most one at a time
\* is attempting to acquire or holding the distributed lock: no call asks
\* the lock service while a call of the same process holds the lock.
C24_InProcessMutexBeforeLock ==
    [][ \A c \in Callers :
          (pc[c] = "contend" /\ lockTries'[c] = lockTries[c] + 1)
          => ~ \E d \in Callers : SameProcess(c, d) /\ lock = d ]_vars

C26_CachedTokenIsReturnedToken ==
    [][ \A c \in Callers :
          (pc[c] # "done" /\ pc'[c] = "done" /\ outcome'[c] = "ok")
          => self_token'[mgr[c]] = ret'[c] ]_vars

====
